---- MODULE Spec2Model ----
(***************************************************************************)
(* Omni-Chat-AI (src/app.py): the live audio relay (/ws/live), the         *)
(* /process_text handler, and the browser-side sendText / runDirectorMode  *)
(* orchestration, as state machines.                                       *)
(***************************************************************************)
EXTENDS Naturals, Sequences, FiniteSets

\* ------------------------------------------------------------------ bounds
MaxFrames == 2     \* client frames put on one /ws/live channel
MaxEvents == 2     \* backend events drained in one live session
MaxRequests == 2   \* requests /process_text handles, and prompts sendText submits
MaxChat == 3       \* messages in the chat before the Director toggle is left alone
MaxAudio == 3      \* bytes the synthesizer writes for one /generate_tts request

\* ================================================================ variables
VARIABLES
  \* --- live_socket (src/app.py 49-81)
  pcLoop,        \* session_loop: "connecting" | "gather" | "aexit" | "returned"
  connected,     \* outcome of client.aio.live.connect: "pending" | "ok" | "failed"
  connects,      \* calls of client.aio.live.connect made for this channel
  session,       \* backend session: "none" | "open" | "broken" | "closed"
  ws,            \* client channel: "open" | "peerClosed" | "closed"
  wsIn,          \* frames the client has sent and ws.receive has not returned yet
  nFrames,       \* number of frames the client has sent on this channel
  pcSend,        \* send_audio: "notstarted" | "receive" | "send" | "done"
  data,          \* the frame send_audio holds between ws.receive and session.send
  received,      \* frames ws.receive has returned to send_audio, in order
  sessionSends,  \* calls session.send(...) that completed, in order
  pcRecv,        \* receive_response: "notstarted" | "receive" | "wssend" | "raised"
  payload,       \* the payload receive_response is sending with ws.send
  events,        \* backend events session.receive() has yielded, in order
  wsOut          \* payloads ws.send has delivered to the client, in order

relayVars == <<pcLoop, connected, connects, session, ws, wsIn, nFrames, pcSend,
               data, received, sessionSends, pcRecv, payload, events, wsOut>>

VARIABLES
  \* --- process_text (src/app.py 83-118)
  ptPc,          \* "idle" | "called" | "returned" | "raised"
  ptRequest,     \* the JSON body of the request being handled
  ptCalls,       \* models generate_content was called with for this request
  ptResponse,    \* the JSON body process_text returned
  ptServed       \* requests handled so far

serverVars == <<ptPc, ptRequest, ptCalls, ptResponse, ptServed>>

VARIABLES
  \* --- the page script (src/app.py 353-738)
  dtEnabled,          \* let dtEnabled
  selectedChatModel,  \* let selectedChatModel
  imgBase64,          \* let imgBase64
  pcText,             \* where the pending sendText / runDirectorMode request is
  prompt,             \* the trimmed text sendText submitted
  loading,            \* number of #load elements in the chat
  chat,               \* messages addMsg appended for the pending request
  results,            \* the expert promises, by position in `experts`
  arrival,            \* positions of the expert calls, in the order they settled
  aiCalls,            \* calls made to a model or generator for the pending request
  nSent               \* requests submitted so far

chatVars == <<dtEnabled, selectedChatModel, imgBase64, pcText, prompt, loading,
              chat, results, arrival, aiCalls, nSent>>

VARIABLES
  \* --- generate_video (src/app.py 120-193)
  vidPc,         \* "idle" | "submitting" | "polling" | "returned"
  vidKey,        \* whether SKYREELS_API_KEY is configured
  vidPrompt,     \* data.get('prompt') of the request being handled
  vidSubmit,     \* how the submit call ended ("none": not made or pending)
  vidSubmits,    \* submit calls (requests.post) made for this request
  vidPolls,      \* status polls (requests.get) made for this request
  vidSeen,       \* the outcomes of the polls made for this request
  vidLast,       \* the outcome of the latest poll
  vidResponse    \* what generate_video returned

videoVars == <<vidPc, vidKey, vidPrompt, vidSubmit, vidSubmits, vidPolls, vidSeen,
               vidLast, vidResponse>>

VARIABLES
  \* --- generate_tts (src/app.py 37-47)
  ttsPc,         \* "idle" | "writing" | "returned"
  ttsText,       \* request.json.get('text') of the request being handled
  ttsSynth,      \* synthesizer runs (tts.write_to_fp) started for this request
  ttsWritten,    \* the bytes the synthesizer wrote, in order
  fp,            \* the io.BytesIO: [buf: its bytes, pos: its stream position]
  ttsResponse    \* what generate_tts returned

ttsVars == <<ttsPc, ttsText, ttsSynth, ttsWritten, fp, ttsResponse>>

vars == <<relayVars, serverVars, chatVars, videoVars, ttsVars>>

\* ============================================================ live relay
\* Client frames, by what json.loads and the key tests of send_audio see.
ClientFrames == {"audio", "commit", "audio_commit", "other", "empty", "badjson"}

HasAudio(f)  == f \in {"audio", "audio_commit"}
HasCommit(f) == f \in {"commit", "audio_commit"}

\* A send_audio that tests the "commit" key before the "audio" key.
SendAudioDispatchCommitFirst(f) ==
  IF f = "empty" THEN "break"
  ELSE IF f = "badjson" THEN "break"
  ELSE IF HasCommit(f) THEN "send_commit"
  ELSE IF HasAudio(f) THEN "send_audio"
  ELSE "skip"

\* What send_audio does with one frame returned by ws.receive (lines 60-63).
SendAudioDispatch(f) ==
  IF f = "empty" THEN "break"
  ELSE IF f = "badjson" THEN "break"
  ELSE IF HasAudio(f) THEN "send_audio"
  ELSE IF HasCommit(f) THEN "send_commit"
  ELSE "skip"

\* A send_audio whose commit branch leaves the turn open.
SessionSendNeverEndsTurn(kind) ==
  IF kind = "send_audio"
    THEN [input |-> "pcm", end_of_turn |-> FALSE]
    ELSE [input |-> "none", end_of_turn |-> FALSE]

\* The session.send call of each branch (lines 62-63).
SessionSendOf(kind) ==
  IF kind = "send_audio"
    THEN [input |-> "pcm", end_of_turn |-> FALSE]
    ELSE [input |-> "none", end_of_turn |-> TRUE]

\* base64.b64encode(...).decode('utf-8') of the audio bytes "a1" and "a2".
B64(bytes) == IF bytes = "a1" THEN "YTE=" ELSE IF bytes = "a2" THEN "YTI=" ELSE ""

\* A backend event: the parts of server_content.model_turn (an audio part carries
\* inline_data, a "textpart" does not) and output_transcription.text ("none":
\* no output_transcription).
NoParts == <<>>
BackendEvents ==
  { [parts |-> NoParts,        transcript |-> "none"],
    [parts |-> <<"a1">>,       transcript |-> "none"],
    [parts |-> <<"a1", "a2">>, transcript |-> "t1"],
    [parts |-> <<"textpart">>, transcript |-> "t1"] }

IsAudioPart(part) == part \in {"a1", "a2"}

\* The loop of lines 70-71 over the parts: payload["audio"] after the loop.
RECURSIVE PayloadAudio(_, _)
PayloadAudio(parts, acc) ==
  IF parts = <<>> THEN acc
  ELSE PayloadAudio(Tail(parts),
                    IF IsAudioPart(Head(parts)) THEN B64(Head(parts)) ELSE acc)

\* payload of lines 68-73; "none" is an absent key.
PayloadOf(e) ==
  [audio |-> PayloadAudio(e.parts, "none"), text |-> e.transcript]

\* `if payload:` (line 74): a dict with at least one key.
PayloadTruthy(p) == p.audio # "none" \/ p.text # "none"

NoPayload == [audio |-> "none", text |-> "none"]

InitRelay ==
  /\ pcLoop = "connecting"
  /\ connected = "pending"
  /\ connects = 1
  /\ session = "none"
  /\ ws = "open"
  /\ wsIn = <<>>
  /\ nFrames = 0
  /\ pcSend = "notstarted"
  /\ data = "none"
  /\ received = <<>>
  /\ sessionSends = <<>>
  /\ pcRecv = "notstarted"
  /\ payload = NoPayload
  /\ events = <<>>
  /\ wsOut = <<>>

\* The event loop of live_socket runs tasks only inside run_until_complete.
LoopRunning == pcLoop \in {"gather", "aexit"}

\* --- the client (startLiveCall: mediaRecorder.ondataavailable -> ws.send)
ClientSend(f) ==
  /\ ws = "open"
  /\ nFrames < MaxFrames
  /\ wsIn' = Append(wsIn, f)
  /\ nFrames' = nFrames + 1
  /\ UNCHANGED <<pcLoop, connected, session, ws, pcSend, data, received,
                 sessionSends, pcRecv, payload, events, wsOut>>
  /\ UNCHANGED connects
  /\ UNCHANGED <<serverVars, chatVars, videoVars, ttsVars>>

\* endCall: the client closes its side of the channel.
ClientClose ==
  /\ ws = "open"
  /\ ws' = "peerClosed"
  /\ UNCHANGED <<pcLoop, connected, session, wsIn, nFrames, pcSend, data,
                 received, sessionSends, pcRecv, payload, events, wsOut>>
  /\ UNCHANGED connects
  /\ UNCHANGED <<serverVars, chatVars, videoVars, ttsVars>>

\* --- session_loop
\* A relay that opens a new backend session when the session it had has ended.
AfterSessionLoopReconnect == "reconnect"

\* lines 76-81: `except: pass` ends session_loop, run_until_complete returns
\* and live_socket returns; nothing calls connect again.
AfterSessionLoop == "return"

\* async with client.aio.live.connect(...) succeeds: gather starts both tasks.
ConnectOk ==
  /\ pcLoop = "connecting"
  /\ connected' = "ok"
  /\ session' = "open"
  /\ pcLoop' = "gather"
  /\ pcSend' = "receive"
  /\ pcRecv' = "receive"
  /\ UNCHANGED <<ws, wsIn, nFrames, data, received, sessionSends, payload,
                 events, wsOut>>
  /\ UNCHANGED connects
  /\ UNCHANGED <<serverVars, chatVars, videoVars, ttsVars>>

\* connect raises: `except: pass` (line 76), session_loop and live_socket return,
\* and the server closes the channel of the handler that returned.
ConnectFail ==
  /\ pcLoop = "connecting"
  /\ IF AfterSessionLoop = "return"
       THEN /\ connected' = "failed"
            /\ pcLoop' = "returned"
            /\ ws' = "closed"
            /\ UNCHANGED connects
       ELSE /\ connects' = connects + 1
            /\ UNCHANGED <<connected, pcLoop, ws>>
  /\ UNCHANGED <<session, wsIn, nFrames, pcSend, data, received, sessionSends,
                 pcRecv, payload, events, wsOut>>
  /\ UNCHANGED <<serverVars, chatVars, videoVars, ttsVars>>

\* gather (line 75) re-raises receive_response's exception into session_loop and
\* leaves send_audio running; `async with` starts closing the backend session.
GatherRaise ==
  /\ pcLoop = "gather"
  /\ pcRecv = "raised"
  /\ pcLoop' = "aexit"
  /\ session' = "closed"
  /\ UNCHANGED <<connected, ws, wsIn, nFrames, pcSend, data, received,
                 sessionSends, pcRecv, payload, events, wsOut>>
  /\ UNCHANGED connects
  /\ UNCHANGED <<serverVars, chatVars, videoVars, ttsVars>>

\* The session is closed: `except: pass`, run_until_complete returns (the loop
\* stops running its tasks), live_socket returns and the server closes the channel.
SessionLoopReturn ==
  /\ pcLoop = "aexit"
  /\ IF AfterSessionLoop = "return"
       THEN /\ pcLoop' = "returned"
            /\ ws' = "closed"
            /\ UNCHANGED <<connected, connects, session>>
       ELSE /\ pcLoop' = "connecting"
            /\ connected' = "pending"
            /\ session' = "none"
            /\ connects' = connects + 1
            /\ UNCHANGED ws
  /\ UNCHANGED <<wsIn, nFrames, pcSend, data, received,
                 sessionSends, pcRecv, payload, events, wsOut>>
  /\ UNCHANGED <<serverVars, chatVars, videoVars, ttsVars>>

\* --- send_audio (lines 56-64)
\* ws.receive returns a frame (or raises on a closed channel); the frame is
\* parsed and dispatched.
SendAudioReceive ==
  /\ pcSend = "receive"
  /\ LoopRunning
  /\ \/ /\ ws = "open"
        /\ wsIn # <<>>
        /\ wsIn' = Tail(wsIn)
        /\ received' = Append(received, Head(wsIn))
        /\ LET what == SendAudioDispatch(Head(wsIn)) IN
             /\ pcSend' = IF what = "break" THEN "done"
                           ELSE IF what = "skip" THEN "receive" ELSE "send"
             /\ data' = IF what \in {"send_audio", "send_commit"}
                           THEN Head(wsIn) ELSE "none"
     \/ /\ ws # "open"
        /\ pcSend' = "done"
        /\ UNCHANGED <<wsIn, received, data>>
  /\ UNCHANGED <<pcLoop, connected, session, ws, nFrames, sessionSends, pcRecv,
                 payload, events, wsOut>>
  /\ UNCHANGED connects
  /\ UNCHANGED <<serverVars, chatVars, videoVars, ttsVars>>

\* await session.send(...) completes, or raises on a session that is not open.
SendAudioSend ==
  /\ pcSend = "send"
  /\ LoopRunning
  /\ IF session = "open"
       THEN /\ sessionSends' =
                 Append(sessionSends, SessionSendOf(SendAudioDispatch(data)))
            /\ pcSend' = "receive"
       ELSE /\ pcSend' = "done"
            /\ UNCHANGED sessionSends
  /\ data' = "none"
  /\ UNCHANGED <<pcLoop, connected, session, ws, wsIn, nFrames, received, pcRecv,
                 payload, events, wsOut>>
  /\ UNCHANGED connects
  /\ UNCHANGED <<serverVars, chatVars, videoVars, ttsVars>>

\* --- receive_response (lines 65-74)
\* session.receive() yields event e; its payload is built.
BackendEvent(e) ==
  /\ pcRecv = "receive"
  /\ LoopRunning
  /\ session = "open"
  /\ Len(events) < MaxEvents
  /\ events' = Append(events, e)
  /\ IF PayloadTruthy(PayloadOf(e))
       THEN pcRecv' = "wssend" /\ payload' = PayloadOf(e)
       ELSE UNCHANGED <<pcRecv, payload>>
  /\ UNCHANGED <<pcLoop, connected, session, ws, wsIn, nFrames, pcSend, data,
                 received, sessionSends, wsOut>>
  /\ UNCHANGED connects
  /\ UNCHANGED <<serverVars, chatVars, videoVars, ttsVars>>

\* await asyncio.to_thread(ws.send, ...) completes, or raises on a closed channel.
WsSend ==
  /\ pcRecv = "wssend"
  /\ LoopRunning
  /\ IF ws = "open"
       THEN wsOut' = Append(wsOut, payload) /\ pcRecv' = "receive"
       ELSE pcRecv' = "raised" /\ UNCHANGED wsOut
  /\ payload' = NoPayload
  /\ UNCHANGED <<pcLoop, connected, session, ws, wsIn, nFrames, pcSend, data,
                 received, sessionSends, events>>
  /\ UNCHANGED connects
  /\ UNCHANGED <<serverVars, chatVars, videoVars, ttsVars>>

\* The backend session breaks (the backend closes or errors the connection).
BackendFail ==
  /\ pcLoop = "gather"
  /\ session = "open"
  /\ session' = "broken"
  /\ UNCHANGED <<pcLoop, connected, ws, wsIn, nFrames, pcSend, data, received,
                 sessionSends, pcRecv, payload, events, wsOut>>
  /\ UNCHANGED connects
  /\ UNCHANGED <<serverVars, chatVars, videoVars, ttsVars>>

\* session.receive() raises on the broken session.
ReceiveRaise ==
  /\ pcRecv = "receive"
  /\ LoopRunning
  /\ session = "broken"
  /\ pcRecv' = "raised"
  /\ UNCHANGED <<pcLoop, connected, session, ws, wsIn, nFrames, pcSend, data,
                 received, sessionSends, payload, events, wsOut>>
  /\ UNCHANGED connects
  /\ UNCHANGED <<serverVars, chatVars, videoVars, ttsVars>>

RelayStep ==
  \/ ConnectOk
  \/ ConnectFail
  \/ GatherRaise
  \/ SessionLoopReturn
  \/ SendAudioReceive
  \/ SendAudioSend
  \/ WsSend
  \/ ReceiveRaise

RelayNext ==
  \/ \E f \in ClientFrames : ClientSend(f)
  \/ ClientClose
  \/ \E e \in BackendEvents : BackendEvent(e)
  \/ BackendFail
  \/ RelayStep

\* ========================================================== process_text
\* The models the page sends to the Python server (serverModels, line 642; the
\* first three of the twelve).
serverModels == <<"gemini-3-flash-preview", "gemma-3-27b-it", "gemini-2.5-flash">>

ServerModelSet == {serverModels[i] : i \in 1..Len(serverModels)}

\* data.get('model', 'gemini-3-flash-preview') (line 87)
DefaultModel == "gemini-3-flash-preview"

\* JSON bodies of a request: each key present or "absent".
PtRequests ==
  { [prompt |-> pr, model |-> m] :
      pr \in {"absent", "", "hi"}, m \in {"absent"} \cup ServerModelSet }

ModelOf(req) == IF req.model = "absent" THEN DefaultModel ELSE req.model

\* What client.generate_content does: it raises (the transport failed, or the
\* backend answered with an error), or returns a response with candidates; a
\* candidate has a content of parts, or none; a part has a text, or ("nontext")
\* no text attribute.
NoCandidates == <<>>
NoContent == [hasContent |-> FALSE, parts |-> <<>>]
Candidate(parts) == [hasContent |-> TRUE, parts |-> parts]
GenerateOutcomes ==
  { [kind |-> "raise", error |-> "transport error"],
    [kind |-> "raise", error |-> "backend error"],
    [kind |-> "response", candidates |-> NoCandidates],
    [kind |-> "response", candidates |-> <<NoContent>>],
    [kind |-> "response", candidates |-> <<Candidate(<<"">>)>>],
    [kind |-> "response", candidates |-> <<Candidate(<<"a">>)>>],
    [kind |-> "response", candidates |-> <<Candidate(<<"a", "nontext", "b">>)>>],
    [kind |-> "response", candidates |-> <<Candidate(<<"a">>), Candidate(<<"c">>)>>] }

\* A text is the sequence of its non-empty pieces; "" is <<>>.
PartText(part) == IF part \in {"", "nontext"} THEN <<>> ELSE <<part>>

RECURSIVE ConcatParts(_)
ConcatParts(parts) ==
  IF parts = <<>> THEN <<>>
  ELSE PartText(Head(parts)) \o ConcatParts(Tail(parts))

\* lines 109-113: the text of the first candidate's parts.
ExtractResponseText(response) ==
  IF response.candidates # <<>> /\ response.candidates[1].hasContent
    THEN ConcatParts(response.candidates[1].parts)
    ELSE <<>>

JsonText(text) == [kind |-> "json", status |-> 200, field |-> "text", value |-> text]

\* process_text without its except clause: the exception leaves the handler.
ProcessTextResultNoCatch(outcome) ==
  IF outcome.kind = "raise"
    THEN [kind |-> "raised", status |-> 500, field |-> "none", value |-> <<>>]
    ELSE LET text == ExtractResponseText(outcome) IN
         JsonText(IF text # <<>> THEN text ELSE <<"No response generated">>)

\* lines 89-118: the body process_text returns for an outcome of the call.
ProcessTextResult(outcome) ==
  IF outcome.kind = "raise"
    THEN JsonText(<<"Error processing request: ", outcome.error>>)
    ELSE LET text == ExtractResponseText(outcome) IN
         JsonText(IF text # <<>> THEN text ELSE <<"No response generated">>)

NoRequest == [prompt |-> "absent", model |-> "absent"]
NoResponse == [kind |-> "none"]

InitServer ==
  /\ ptPc = "idle"
  /\ ptRequest = NoRequest
  /\ ptCalls = <<>>
  /\ ptResponse = NoResponse
  /\ ptServed = 0

\* POST /process_text arrives: lines 85-106 up to the call of the model.
PtRequest(req) ==
  /\ ptPc \in {"idle", "returned"}
  /\ ptServed < MaxRequests
  /\ ptPc' = "called"
  /\ ptRequest' = req
  /\ ptCalls' = <<[model |-> ModelOf(req), outcome |-> "pending"]>>
  /\ ptResponse' = NoResponse
  /\ UNCHANGED ptServed
  /\ UNCHANGED <<relayVars, chatVars, videoVars, ttsVars>>

CallOutcome(outcome) ==
  IF outcome.kind = "raise" THEN outcome.error
  ELSE IF outcome.candidates = <<>> THEN "no candidates"
  ELSE IF ExtractResponseText(outcome) = <<>> THEN "empty" ELSE "ok"

\* A handler that calls the model again when the call raised or gave no text.
AfterCallRetry(outcome) ==
  IF outcome.kind = "raise" \/ ExtractResponseText(outcome) = <<>>
    THEN "retry" ELSE "return"

\* lines 108-118: every path after the call of line 102 is a return.
AfterCall(outcome) == "return"

\* The call ends with `outcome`: lines 108-118, the handler returns (or, were
\* an exception to escape it, raises).
PtComplete(outcome) ==
  /\ ptPc = "called"
  /\ IF AfterCall(outcome) = "return"
       THEN /\ LET r == ProcessTextResult(outcome) IN
                 /\ ptResponse' = r
                 /\ ptPc' = IF r.kind = "raised" THEN "raised" ELSE "returned"
            /\ ptCalls' =
                 [ptCalls EXCEPT ![Len(ptCalls)].outcome = CallOutcome(outcome)]
            /\ ptServed' = ptServed + 1
       ELSE /\ ptCalls' =
                 Append([ptCalls EXCEPT ![Len(ptCalls)].outcome = CallOutcome(outcome)],
                        [model |-> ModelOf(ptRequest), outcome |-> "pending"])
            /\ UNCHANGED <<ptPc, ptResponse, ptServed>>
  /\ UNCHANGED ptRequest
  /\ UNCHANGED <<relayVars, chatVars, videoVars, ttsVars>>

ServerNext ==
  \/ \E req \in PtRequests : PtRequest(req)
  \/ \E outcome \in GenerateOutcomes : PtComplete(outcome)

\* ========================================================== the page script
\* chatModels (lines 355-368; the first two ids) and the prompts tried.
chatModels == {"gemini-3-flash-preview", "gemma-3-27b-it"}

Prompts == {"", "hi", "/image cat"}

\* line 617: t starts with "/image" or includes "generate image".
IsImagePrompt(t) == t = "/image cat"

\* experts (lines 558-562)
experts ==
  << [model |-> "gpt-5.2-pro",          name |-> "GPT-5.2 Pro"],
     [model |-> "claude-opus-4-5",      name |-> "Claude Opus 4.5"],
     [model |-> "gemini-3-pro-preview", name |-> "Gemini 3 Pro"] >>

ExpertIds == 1..Len(experts)

\* line 589: the model of the synthesis call.
SynthesisModel == "gemini-3-pro-preview"

\* How a puter.ai.chat call ends: it resolves with a result extractText reads
\* ("ok"), resolves with one extractText throws on ("throws": message.content an
\* empty array), or rejects.
ChatOutcomes == {"ok", "throws", "reject"}

Pending == [state |-> "pending"]

\* The expert promise without its .catch: a failed call rejects.
ExpertPromiseNoCatch(i, outcome) ==
  IF outcome = "ok"
    THEN [state |-> "fulfilled", name |-> experts[i].name, text |-> "opinion"]
    ELSE [state |-> "rejected", name |-> experts[i].name, text |-> "Failed"]

\* lines 567-569: the promise of one expert after its .then and .catch.
\* extractText runs inside .then, so what it throws reaches .catch as well.
ExpertPromise(i, outcome) ==
  IF outcome = "ok"
    THEN [state |-> "fulfilled", name |-> experts[i].name, text |-> "opinion"]
    ELSE [state |-> "fulfilled", name |-> experts[i].name, text |-> "Failed"]

\* Values collected in the order the calls settle, not by position.
PromiseAllStoreByArrival(res, i, value) ==
  LET k == CHOOSE j \in ExpertIds :
             /\ res[j].state = "pending"
             /\ \A l \in ExpertIds : l < j => res[l].state # "pending"
  IN [res EXCEPT ![k] = value]

\* Promise.all (line 572) keeps each value at the position of its promise.
PromiseAllStore(res, i, value) == [res EXCEPT ![i] = value]

AllFulfilled(res) == \A i \in ExpertIds : res[i].state = "fulfilled"
AnyRejected(res) == \E i \in ExpertIds : res[i].state = "rejected"

\* results.join (line 573): the sections in the order of `results`.
RawData(res) == [i \in ExpertIds |-> [name |-> res[i].name, text |-> res[i].text]]

Msg(type, kind, body) == [type |-> type, kind |-> kind, body |-> body]

\* A catch that falls back to showing the experts' opinions as the answer.
DirectorCatchRaw(rawData) == Msg("ai", "answer", rawData)

\* The catch of runDirectorMode (lines 593-596): the message it shows.
DirectorCatch(rawData) == Msg("ai", "error", <<"Director Mode Failed">>)

AddLoading(n) == n + 1
RemoveLoading(n) == IF n > 0 THEN n - 1 ELSE n

\* What fetch("/process_text") ends with: the request fails, or a reply arrives
\* whose body is not JSON, or is JSON with a text, with an empty text or
\* without a text.
FetchReplies == {"network failure", "not json", "text", "empty text", "no text"}

\* lines 651-655: the message shown for a JSON reply d (d.text || "Error").
ReplyMsg(reply) ==
  Msg("ai", "answer", IF reply = "text" THEN <<"text">> ELSE <<"Error">>)

Call(api, model, input) ==
  [api |-> api, model |-> model, input |-> input, outcome |-> "pending"]

InitChat ==
  /\ dtEnabled = FALSE
  /\ selectedChatModel = "gemini-3-flash-preview"
  /\ imgBase64 = "null"
  /\ pcText = "idle"
  /\ prompt = ""
  /\ loading = 0
  /\ chat = <<>>
  /\ results = [i \in ExpertIds |-> Pending]
  /\ arrival = <<>>
  /\ aiCalls = <<>>
  /\ nSent = 0

\* toggleDT (lines 380-393)
ToggleDT ==
  /\ Len(chat) < MaxChat
  /\ dtEnabled' = ~dtEnabled
  /\ chat' = Append(chat, Msg("ai", "notice", <<"Director Mode">>))
  /\ UNCHANGED <<selectedChatModel, imgBase64, pcText, prompt, loading, results,
                 arrival, aiCalls, nSent>>
  /\ UNCHANGED <<relayVars, serverVars, videoVars, ttsVars>>

\* the onClick of openModelModal (lines 409-413)
SelectModel(m) ==
  /\ selectedChatModel # m
  /\ selectedChatModel' = m
  /\ UNCHANGED <<dtEnabled, imgBase64, pcText, prompt, loading, chat, results,
                 arrival, aiCalls, nSent>>
  /\ UNCHANGED <<relayVars, serverVars, videoVars, ttsVars>>

\* handleFile (lines 727-737)
HandleFile ==
  /\ imgBase64 = "null"
  /\ imgBase64' = "img"
  /\ UNCHANGED <<dtEnabled, selectedChatModel, pcText, prompt, loading, chat,
                 results, arrival, aiCalls, nSent>>
  /\ UNCHANGED <<relayVars, serverVars, videoVars, ttsVars>>

Settled == {"idle", "done", "unhandled"}

\* let selectedImgModel (line 374)
selectedImgModel == "black-forest-labs/FLUX.1-schnell"

\* sendText (lines 608-676) up to its first await or to the fetch it starts;
\* with dtEnabled, runDirectorMode (lines 556-570) up to `await Promise.all`.
SendText(t) ==
  /\ pcText \in Settled
  /\ nSent < MaxRequests
  /\ ~(t = "" /\ imgBase64 = "null")
  /\ nSent' = nSent + 1
  /\ prompt' = t
  /\ chat' = <<Msg("user", "prompt", <<t>>)>>
  /\ loading' = AddLoading(loading)
  /\ arrival' = <<>>
  /\ results' = [i \in ExpertIds |-> Pending]
  /\ IF IsImagePrompt(t)
       THEN /\ aiCalls' = <<Call("txt2img", selectedImgModel, <<t>>)>>
            /\ pcText' = "txt2img"
            /\ UNCHANGED imgBase64
       ELSE IF dtEnabled
       THEN /\ aiCalls' = [i \in ExpertIds |-> Call("chat", experts[i].model, <<t>>)]
            /\ pcText' = "experts"
            /\ UNCHANGED imgBase64
       ELSE IF selectedChatModel \in ServerModelSet
       THEN /\ aiCalls' = <<Call("process_text", selectedChatModel, <<t>>)>>
            /\ pcText' = "fetch"
            /\ imgBase64' = "null"
       ELSE /\ aiCalls' = <<Call("chat", selectedChatModel, <<t>>)>>
            /\ pcText' = "chat"
            /\ UNCHANGED imgBase64
  /\ UNCHANGED <<dtEnabled, selectedChatModel>>
  /\ UNCHANGED <<relayVars, serverVars, videoVars, ttsVars>>

\* The call of expert i settles: its .then or .catch runs (lines 567-569).
ExpertSettle(i, outcome) ==
  /\ pcText = "experts"
  /\ aiCalls[i].outcome = "pending"
  /\ aiCalls' = [aiCalls EXCEPT ![i].outcome = outcome]
  /\ results' = PromiseAllStore(results, i, ExpertPromise(i, outcome))
  /\ arrival' = Append(arrival, i)
  /\ UNCHANGED <<dtEnabled, selectedChatModel, imgBase64, pcText, prompt, loading,
                 chat, nSent>>
  /\ UNCHANGED <<relayVars, serverVars, videoVars, ttsVars>>

\* `await Promise.all(promises)` resumes (lines 572-589): with every promise
\* fulfilled the synthesis call is made; a rejected promise would reject
\* Promise.all at once and enter the catch.
AwaitAll ==
  /\ pcText = "experts"
  /\ AllFulfilled(results) \/ AnyRejected(results)
  /\ IF AnyRejected(results)
       THEN /\ loading' = RemoveLoading(loading)
            /\ chat' = Append(chat, DirectorCatch(results))
            /\ pcText' = "done"
            /\ UNCHANGED aiCalls
       ELSE /\ loading' = AddLoading(RemoveLoading(loading))
            /\ aiCalls' = Append(aiCalls, Call("chat", SynthesisModel, RawData(results)))
            /\ pcText' = "synthesis"
            /\ UNCHANGED chat
  /\ UNCHANGED <<dtEnabled, selectedChatModel, imgBase64, prompt, results, arrival,
                 nSent>>
  /\ UNCHANGED <<relayVars, serverVars, videoVars, ttsVars>>

\* The synthesis call settles (lines 589-596). When extractText throws, line 590
\* has already removed one loader and the catch removes another.
SynthesisSettle(outcome) ==
  /\ pcText = "synthesis"
  /\ aiCalls' = [aiCalls EXCEPT ![Len(aiCalls)].outcome = outcome]
  /\ loading' = IF outcome = "throws"
                  THEN RemoveLoading(RemoveLoading(loading))
                  ELSE RemoveLoading(loading)
  /\ chat' = Append(chat, IF outcome = "ok"
                            THEN Msg("ai", "answer", <<"synthesis">>)
                            ELSE DirectorCatch(RawData(results)))
  /\ pcText' = "done"
  /\ UNCHANGED <<dtEnabled, selectedChatModel, imgBase64, prompt, results, arrival,
                 nSent>>
  /\ UNCHANGED <<relayVars, serverVars, videoVars, ttsVars>>

\* puter.ai.txt2img settles (lines 621-629).
ImageSettle(outcome) ==
  /\ pcText = "txt2img"
  /\ outcome \in {"ok", "reject"}
  /\ aiCalls' = [aiCalls EXCEPT ![1].outcome = outcome]
  /\ loading' = RemoveLoading(loading)
  /\ chat' = Append(chat, IF outcome = "ok"
                            THEN Msg("ai", "image", <<"img">>)
                            ELSE Msg("ai", "error", <<"Error: ">>))
  /\ pcText' = "done"
  /\ UNCHANGED <<dtEnabled, selectedChatModel, imgBase64, prompt, results, arrival,
                 nSent>>
  /\ UNCHANGED <<relayVars, serverVars, videoVars, ttsVars>>

\* fetch(...).then(r => r.json()).then(d => ...) (lines 649-655): the chain has no
\* rejection handler, so a rejected fetch or r.json() runs neither callback.
FetchRuns(reply) == reply \notin {"network failure", "not json"}

FetchSettle(reply) ==
  /\ pcText = "fetch"
  /\ aiCalls' = [aiCalls EXCEPT ![1].outcome = reply]
  /\ IF FetchRuns(reply)
       THEN /\ loading' = RemoveLoading(loading)
            /\ chat' = Append(chat, ReplyMsg(reply))
            /\ pcText' = "done"
       ELSE /\ pcText' = "unhandled"
            /\ UNCHANGED <<loading, chat>>
  /\ UNCHANGED <<dtEnabled, selectedChatModel, imgBase64, prompt, results, arrival,
                 nSent>>
  /\ UNCHANGED <<relayVars, serverVars, videoVars, ttsVars>>

ChatNext ==
  \/ ToggleDT
  \/ \E m \in chatModels : SelectModel(m)
  \/ HandleFile
  \/ \E t \in Prompts : SendText(t)
  \/ \E i \in ExpertIds, outcome \in ChatOutcomes : ExpertSettle(i, outcome)
  \/ AwaitAll
  \/ \E outcome \in ChatOutcomes : SynthesisSettle(outcome)
  \/ \E outcome \in ChatOutcomes : ImageSettle(outcome)
  \/ \E reply \in FetchReplies : FetchSettle(reply)

\* ========================================================= generate_video
\* max_attempts (line 160)
max_attempts == 60

\* data.get('prompt'): absent, empty or a text.
VideoPrompts == {"absent", "", "a cat"}

\* How the submit call of lines 136-157 ends: requests.post raises, the HTTP
\* status is not 200, the body is not JSON, its code is not 200, it has no
\* task_id, or it has one.
SubmitOutcomes ==
  {"raise", "http error", "not json", "code error", "no task id", "task"}

\* How one status poll of lines 165-173 ends: requests.get raises, the HTTP
\* status is not 200, the body is not JSON, or the body's status is the one
\* named ("other": no status, or one the code does not name).
PollOutcomes ==
  {"raise", "http error", "not json", "submitted", "pending", "running",
   "other", "success", "failed", "unknown"}

VideoError(status, msg) == [status |-> status, kind |-> "error", msg |-> msg]
VideoSuccess == [status |-> 200, kind |-> "success", msg |-> "video_url"]
NoVideoResponse == [status |-> 0, kind |-> "none", msg |-> ""]
Continue == [status |-> 0, kind |-> "continue", msg |-> ""]

\* lines 122-132: the checks made before any external call.
VideoPrecheck(key, pr) ==
  IF ~key THEN VideoError(500, "SKYREELS_API_KEY not configured")
  ELSE IF pr \in {"absent", ""} THEN VideoError(400, "No prompt provided")
  ELSE Continue

\* A submit check that does not look at the task id.
VideoAfterSubmitNoTaskCheck(outcome) ==
  IF outcome \in {"raise", "not json"}
    THEN VideoError(500, "Video generation failed: exception")
  ELSE IF outcome = "http error" THEN VideoError(500, "SKYREELS API submit error")
  ELSE IF outcome = "code error" THEN VideoError(500, "SKYREELS API error")
  ELSE Continue

\* lines 148-157 and the except of line 192: what follows the submit call.
VideoAfterSubmit(outcome) ==
  IF outcome \in {"raise", "not json"}
    THEN VideoError(500, "Video generation failed: exception")
  ELSE IF outcome = "http error" THEN VideoError(500, "SKYREELS API submit error")
  ELSE IF outcome = "code error" THEN VideoError(500, "SKYREELS API error")
  ELSE IF outcome = "no task id"
    THEN VideoError(500, "Failed to get task ID from SKYREELS API")
  ELSE Continue

\* A dispatch that keeps polling on the status 'unknown'.
PollDispatchUnknownPolls(outcome) ==
  IF outcome \in {"raise", "not json"}
    THEN VideoError(500, "Video generation failed: exception")
  ELSE IF outcome = "success" THEN VideoSuccess
  ELSE IF outcome = "failed" THEN VideoError(500, "Video generation failed: msg")
  ELSE Continue

\* lines 169-188 and the except of line 192: what one poll leads to.
PollDispatch(outcome) ==
  IF outcome \in {"raise", "not json"}
    THEN VideoError(500, "Video generation failed: exception")
  ELSE IF outcome = "http error" THEN Continue
  ELSE IF outcome = "success" THEN VideoSuccess
  ELSE IF outcome = "failed" THEN VideoError(500, "Video generation failed: msg")
  ELSE IF outcome = "unknown"
    THEN VideoError(500, "Unknown task status from SKYREELS API")
  ELSE Continue

\* A polling loop with no bound on its attempts.
LoopNeverExhausted(polls) == FALSE

\* `for attempt in range(max_attempts)` (line 161) has run `polls` times.
LoopExhausted(polls) == polls >= max_attempts

TimedOut == VideoError(500, "Video generation timed out after 5 minutes")

InitVideo ==
  /\ vidPc = "idle"
  /\ vidKey \in BOOLEAN
  /\ vidPrompt = "absent"
  /\ vidSubmit = "none"
  /\ vidSubmits = 0
  /\ vidPolls = 0
  /\ vidSeen = {}
  /\ vidLast = "none"
  /\ vidResponse = NoVideoResponse

\* POST /generate_video arrives: lines 122-146 up to the submit call.
VideoRequest(pr) ==
  /\ vidPc \in {"idle", "returned"}
  /\ vidPrompt' = pr
  /\ vidSubmit' = "none"
  /\ vidPolls' = 0
  /\ vidSeen' = {}
  /\ vidLast' = "none"
  /\ LET r == VideoPrecheck(vidKey, pr) IN
       IF r.kind = "continue"
         THEN vidPc' = "submitting" /\ vidSubmits' = 1
              /\ vidResponse' = NoVideoResponse
         ELSE vidPc' = "returned" /\ vidSubmits' = 0 /\ vidResponse' = r
  /\ UNCHANGED vidKey
  /\ UNCHANGED <<relayVars, serverVars, chatVars, ttsVars>>

\* The submit call ends: lines 148-160.
SubmitSettle(outcome) ==
  /\ vidPc = "submitting"
  /\ vidSubmit' = outcome
  /\ LET r == VideoAfterSubmit(outcome) IN
       IF r.kind = "continue"
         THEN vidPc' = "polling" /\ UNCHANGED vidResponse
         ELSE vidPc' = "returned" /\ vidResponse' = r
  /\ UNCHANGED <<vidKey, vidPrompt, vidSubmits, vidPolls, vidSeen, vidLast>>
  /\ UNCHANGED <<relayVars, serverVars, chatVars, ttsVars>>

\* One iteration of the loop of lines 161-188, and line 190 after the last.
Poll(outcome) ==
  /\ vidPc = "polling"
  /\ vidPolls' = vidPolls + 1
  /\ vidSeen' = vidSeen \cup {outcome}
  /\ vidLast' = outcome
  /\ LET r == PollDispatch(outcome) IN
       IF r.kind # "continue"
         THEN vidPc' = "returned" /\ vidResponse' = r
         ELSE IF LoopExhausted(vidPolls + 1)
           THEN vidPc' = "returned" /\ vidResponse' = TimedOut
           ELSE UNCHANGED <<vidPc, vidResponse>>
  /\ UNCHANGED <<vidKey, vidPrompt, vidSubmit, vidSubmits>>
  /\ UNCHANGED <<relayVars, serverVars, chatVars, ttsVars>>

VideoNext ==
  \/ \E pr \in VideoPrompts : VideoRequest(pr)
  \/ \E outcome \in SubmitOutcomes : SubmitSettle(outcome)
  \/ \E outcome \in PollOutcomes : Poll(outcome)

\* =========================================================== generate_tts
\* The bytes of an audio stream, by example.
Bytes == {0, 77, 255}

\* request.json.get('text') (line 39): None, the empty string, a text.
TtsTexts == {"absent", "", "hi"}

\* The base64 alphabet of base64.b64encode (RFC 4648, standard alphabet).
Alphabet ==
  << "A","B","C","D","E","F","G","H","I","J","K","L","M","N","O","P",
     "Q","R","S","T","U","V","W","X","Y","Z","a","b","c","d","e","f",
     "g","h","i","j","k","l","m","n","o","p","q","r","s","t","u","v",
     "w","x","y","z","0","1","2","3","4","5","6","7","8","9","+","/" >>

Sextet(n) == Alphabet[n + 1]

\* One group of 1, 2 or 3 bytes as 4 characters, padded with "=".
EncodeGroup(g) ==
  LET b1 == g[1]
      b2 == IF Len(g) >= 2 THEN g[2] ELSE 0
      b3 == IF Len(g) >= 3 THEN g[3] ELSE 0
      n  == b1 * 65536 + b2 * 256 + b3
  IN  << Sextet(n \div 262144),
         Sextet((n \div 4096) % 64),
         IF Len(g) >= 2 THEN Sextet((n \div 64) % 64) ELSE "=",
         IF Len(g) >= 3 THEN Sextet(n % 64) ELSE "=" >>

RECURSIVE Base64Encode(_)
\* base64.b64encode(bytes).decode() (line 45), as a sequence of characters.
Base64Encode(bytes) ==
  IF bytes = <<>> THEN <<>>
  ELSE IF Len(bytes) <= 3 THEN EncodeGroup(bytes)
  ELSE EncodeGroup(SubSeq(bytes, 1, 3)) \o Base64Encode(SubSeq(bytes, 4, Len(bytes)))

\* BytesIO.write(chunk): the chunk overwrites the buffer from the stream
\* position on and the position moves past it.
BytesIOWrite(f, chunk) ==
  [buf |-> SubSeq(f.buf, 1, f.pos) \o chunk
             \o SubSeq(f.buf, f.pos + Len(chunk) + 1, Len(f.buf)),
   pos |-> f.pos + Len(chunk)]

\* BytesIO.read(): the bytes from the stream position to the end.
BytesIORead(f) == SubSeq(f.buf, f.pos + 1, Len(f.buf))

\* io.BytesIO() (line 43): an empty buffer at position 0.
NewBytesIO == [buf |-> <<>>, pos |-> 0]

TtsError == [status |-> 400, kind |-> "error", audio |-> <<>>]
TtsFailed == [status |-> 500, kind |-> "error", audio |-> <<>>]
TtsAudio(b64) == [status |-> 200, kind |-> "audio", audio |-> b64]
NoTtsResponse == [status |-> 0, kind |-> "none", audio |-> <<>>]

InitTts ==
  /\ ttsPc = "idle"
  /\ ttsText = "absent"
  /\ ttsSynth = 0
  /\ ttsWritten = <<>>
  /\ fp = NewBytesIO
  /\ ttsResponse = NoTtsResponse

\* POST /generate_tts with a JSON object body: lines 39-43. A missing or empty
\* text is answered 400 at line 40; otherwise the synthesizer is built and
\* write_to_fp starts on a fresh BytesIO.
TtsRequest(text) ==
  /\ ttsPc \in {"idle", "returned"}
  /\ ttsText' = text
  /\ ttsWritten' = <<>>
  /\ fp' = NewBytesIO
  /\ IF text \in {"absent", ""}
       THEN /\ ttsPc' = "returned"
            /\ ttsSynth' = 0
            /\ ttsResponse' = TtsError
       ELSE /\ ttsPc' = "writing"
            /\ ttsSynth' = 1
            /\ ttsResponse' = NoTtsResponse
  /\ UNCHANGED <<relayVars, serverVars, chatVars, videoVars>>

\* tts.write_to_fp(fp) (line 44) writes one more chunk of audio.
TtsWrite(byte) ==
  /\ ttsPc = "writing"
  /\ Len(ttsWritten) < MaxAudio
  /\ fp' = BytesIOWrite(fp, <<byte>>)
  /\ ttsWritten' = Append(ttsWritten, byte)
  /\ UNCHANGED <<ttsPc, ttsText, ttsSynth, ttsResponse>>
  /\ UNCHANGED <<relayVars, serverVars, chatVars, videoVars>>

\* gTTS or write_to_fp raises (lines 42-44): the except of line 47 answers 500.
TtsRaise ==
  /\ ttsPc = "writing"
  /\ ttsPc' = "returned"
  /\ ttsResponse' = TtsFailed
  /\ UNCHANGED <<ttsText, ttsSynth, ttsWritten, fp>>
  /\ UNCHANGED <<relayVars, serverVars, chatVars, videoVars>>

\* write_to_fp returned: lines 45-46 read the buffer, encode it and answer.
TtsReturn ==
  /\ ttsPc = "writing"
  /\ ttsPc' = "returned"
  /\ ttsResponse' = TtsAudio(Base64Encode(BytesIORead(fp)))
  /\ fp' = [fp EXCEPT !.pos = Len(fp.buf)]
  /\ UNCHANGED <<ttsText, ttsSynth, ttsWritten>>
  /\ UNCHANGED <<relayVars, serverVars, chatVars, videoVars>>

TtsNext ==
  \/ \E text \in TtsTexts : TtsRequest(text)
  \/ \E byte \in Bytes : TtsWrite(byte)
  \/ TtsRaise
  \/ TtsReturn

\* ========================================================= specifications
Init == InitRelay /\ InitServer /\ InitChat /\ InitVideo /\ InitTts

Next == RelayNext \/ ServerNext \/ ChatNext \/ VideoNext \/ TtsNext

\* The initial states with SKYREELS_API_KEY configured.
InitKeyed == Init /\ vidKey = TRUE

\* The whole program: the relay, the handler and the page run side by side.
Spec == Init /\ [][Next]_vars

\* One /ws/live channel (the relay, the text handler and the page do not read
\* the video key: their specifications start with it configured).
SpecRelay == InitKeyed /\ [][RelayNext]_vars

\* The relay with its scheduling: the event loop runs every task that can take a
\* step, and a pending connect resolves. Nothing is assumed of the client or of
\* the backend producing frames, events or failures.
FairRelay ==
  /\ SpecRelay
  /\ WF_vars(ConnectOk \/ ConnectFail)
  /\ WF_vars(GatherRaise)
  /\ WF_vars(SessionLoopReturn)
  /\ WF_vars(SendAudioReceive)
  /\ WF_vars(SendAudioSend)
  /\ WF_vars(WsSend)
  /\ WF_vars(ReceiveRaise)

\* The /process_text handler.
SpecServer == InitKeyed /\ [][ServerNext]_vars

\* The page script.
SpecChat == InitKeyed /\ [][ChatNext]_vars

\* The /generate_video handler.
SpecVideo == Init /\ [][VideoNext]_vars

\* The /generate_tts handler.
SpecTts == InitKeyed /\ [][TtsNext]_vars

\* ================================================================= claims
\* --- live audio relay
RelayState ==
  IF pcLoop = "connecting" THEN "Connecting"
  ELSE IF pcLoop = "gather" THEN "Streaming"
  ELSE IF pcLoop = "aexit" THEN "Closing"
  ELSE "Closed"

\* C1: once the client channel has closed while the relay is Streaming, the
\* relay eventually reaches Closed with the backend session released.
C1_ClientCloseReleasesSession ==
  (pcLoop = "gather" /\ ws = "peerClosed")
    ~> (RelayState = "Closed" /\ session = "closed")

\* C2: once the session is Closed after Streaming, the backend session and the
\* client channel are released and neither forwarding task is left running or
\* blocked: send_audio has ended as well as receive_response.
C2_NoTaskLeftAfterClose ==
  (RelayState = "Closed" /\ connected = "ok")
    => /\ session = "closed"
       /\ ws = "closed"
       /\ pcRecv = "raised"
       /\ pcSend = "done"

\* C9: when opening the backend session fails, the relay is Closed, the client
\* has been sent an error signal (a frame: the close of the channel is the one
\* every returning handler gets), and no client frame was read or forwarded.
C9_HandshakeFailureSignalled ==
  connected = "failed"
    => /\ RelayState = "Closed"
       /\ received = <<>>
       /\ sessionSends = <<>>
       /\ wsOut # <<>>

\* The audio payloads and transcripts of a sequence of backend events, and of
\* a sequence of client frames, in order.
RECURSIVE AudioDue(_)
AudioDue(parts) ==
  IF parts = <<>> THEN <<>>
  ELSE (IF IsAudioPart(Head(parts)) THEN <<B64(Head(parts))>> ELSE <<>>)
         \o AudioDue(Tail(parts))

RECURSIVE EventsAudio(_)
EventsAudio(evs) ==
  IF evs = <<>> THEN <<>> ELSE AudioDue(Head(evs).parts) \o EventsAudio(Tail(evs))

RECURSIVE FramesField(_, _)
FramesField(frames, key) ==
  IF frames = <<>> THEN <<>>
  ELSE (IF Head(frames)[key] # "none" THEN <<Head(frames)[key]>> ELSE <<>>)
         \o FramesField(Tail(frames), key)

RECURSIVE EventsText(_)
EventsText(evs) ==
  IF evs = <<>> THEN <<>>
  ELSE (IF Head(evs).transcript # "none" THEN <<Head(evs).transcript>> ELSE <<>>)
         \o EventsText(Tail(evs))

CarriesSomething(e) ==
  e.transcript # "none" \/ \E k \in 1..Len(e.parts) : IsAudioPart(e.parts[k])

\* C10: whenever receive_response is ready for the next backend event, every
\* audio payload and every transcript of the events drained so far has been
\* sent to the client, in order, and only events carrying audio or a transcript
\* produced a frame.
C10_EveryPayloadForwarded ==
  pcRecv = "receive"
    => /\ FramesField(wsOut, "audio") = EventsAudio(events)
       /\ FramesField(wsOut, "text") = EventsText(events)
       /\ Len(wsOut) = Cardinality({k \in 1..Len(events) : CarriesSomething(events[k])})

\* --- ensemble synthesizer
DirectorRequest == Len(aiCalls) >= Len(experts)

SynthesisCalls == {k \in 1..Len(aiCalls) : k > Len(experts)}

ExpertFailed(i) == aiCalls[i].outcome \in {"reject", "throws"}

\* C3: the text handed to the synthesis call holds one labelled section per
\* expert, in the order of the expert list, whatever order the calls settled
\* in; the section of an expert is marked failed exactly when its call failed.
C3_SectionsInExpertOrder ==
  \A k \in SynthesisCalls :
    /\ Len(aiCalls[k].input) = Len(experts)
    /\ \A i \in ExpertIds :
         /\ aiCalls[k].input[i].name = experts[i].name
         /\ (aiCalls[k].input[i].text = "Failed") <=> ExpertFailed(i)

\* Experts 1 and 3 succeeded, expert 2 failed, and the calls settled 3, 1, 2.
C3_Witness ==
  /\ pcText = "synthesis"
  /\ arrival = <<3, 1, 2>>
  /\ aiCalls[1].outcome = "ok" /\ aiCalls[3].outcome = "ok"
  /\ aiCalls[2].outcome = "reject"

\* C4: failed expert calls never abort the fan-out: a failed expert's promise
\* is fulfilled with its label and "Failed", the request does not end before
\* the synthesis call, and that call is made at most once and only when every
\* expert call has settled.
C4_FanOutNeverAborts ==
  /\ Cardinality(SynthesisCalls) <= 1
  /\ SynthesisCalls # {} => \A i \in ExpertIds : aiCalls[i].outcome # "pending"
  /\ (DirectorRequest /\ pcText = "done") => SynthesisCalls # {}
  /\ DirectorRequest =>
       \A i \in ExpertIds :
         ExpertFailed(i) =>
           results[i] = [state |-> "fulfilled", name |-> experts[i].name,
                         text |-> "Failed"]

\* Every expert call failed and the synthesis was still made, once.
C4_Witness ==
  /\ pcText = "done"
  /\ DirectorRequest
  /\ \A i \in ExpertIds : ExpertFailed(i)
  /\ Cardinality(SynthesisCalls) = 1

KindCount(kind) == Cardinality({k \in 1..Len(chat) : chat[k].kind = kind})

SynthesisFailed ==
  /\ SynthesisCalls # {}
  /\ aiCalls[Len(experts) + 1].outcome \in {"reject", "throws"}

\* C5: when the synthesis call has failed, the request ends with exactly one
\* error message, no answer (the experts' opinions are not shown) and no model
\* call after the synthesis call.
C5_SynthesisFailureOneError ==
  SynthesisFailed
    => /\ pcText = "done"
       /\ KindCount("error") = 1
       /\ KindCount("answer") = 0
       /\ Len(aiCalls) = Len(experts) + 1

\* The synthesis call was rejected after all three experts had answered.
C5_Witness ==
  /\ SynthesisFailed
  /\ aiCalls[Len(experts) + 1].outcome = "reject"
  /\ \A i \in ExpertIds : aiCalls[i].outcome = "ok"

\* C8: a submitted request that has settled (nothing of it is pending) has
\* removed its loading indicator and shows a result or an error message.
C8_SettledRequestShowsOutcome ==
  pcText \in {"done", "unhandled"}
    => /\ loading = 0
       /\ KindCount("answer") + KindCount("error") + KindCount("image") >= 1

\* --- process_text
CallFailed(c) == c.outcome \in {"transport error", "backend error"}

ModelsTried == {ptCalls[k].model : k \in 1..Len(ptCalls)}

\* C6: a request has returned only when its last call succeeded (the failures
\* before it were recovered by calling the next model) or when every model has
\* been tried; the failure of a single model is not what the user gets.
C6_FailureRecoveredByNextModel ==
  ptPc = "returned"
    => \/ ~CallFailed(ptCalls[Len(ptCalls)])
       \/ ModelsTried = ServerModelSet

\* C7: process_text never raises, and it returns a JSON body whose 'text' field
\* is a non-empty string for every outcome of the model call; when the call
\* failed the text is the error message.
C7_AlwaysReturnsText ==
  /\ ptPc # "raised"
  /\ ptPc = "returned"
       => /\ ptResponse.kind = "json"
          /\ ptResponse.field = "text"
          /\ ptResponse.value # <<>>
          /\ CallFailed(ptCalls[1])
               => ptResponse.value[1] = "Error processing request: "

\* The only call of a request failed in transport and the handler returned.
C7_Witness ==
  /\ ptPc = "returned"
  /\ Len(ptCalls) = 1
  /\ ptCalls[1].outcome = "transport error"

\* --- live audio relay, inbound
\* The frames of a sequence that carry audio or a commit, in order.
RECURSIVE Forwardable(_)
Forwardable(frames) ==
  IF frames = <<>> THEN <<>>
  ELSE (IF HasAudio(Head(frames)) \/ HasCommit(Head(frames))
          THEN <<Head(frames)>> ELSE <<>>)
         \o Forwardable(Tail(frames))

\* The send a forwarded frame stands for: audio with the turn left open, a
\* commit alone with the turn ended.
ExpectedSend(f) ==
  IF HasAudio(f)
    THEN [input |-> "pcm", end_of_turn |-> FALSE]
    ELSE [input |-> "none", end_of_turn |-> TRUE]

\* C11: the sends made to the backend session are, in order, the sends of the
\* audio/commit frames received so far, all but at most the last one, and that
\* one frame is the only frame the relay holds.
C11_ForwardedInArrivalOrder ==
  LET fwd == Forwardable(received) IN
    /\ Len(sessionSends) <= Len(fwd)
    /\ Len(fwd) - Len(sessionSends) <= 1
    /\ \A k \in 1..Len(sessionSends) : sessionSends[k] = ExpectedSend(fwd[k])
    /\ pcSend = "send" => /\ Len(fwd) = Len(sessionSends) + 1
                          /\ data = fwd[Len(fwd)]
    /\ pcSend # "send" => data = "none"

\* An audio frame and then a commit frame have both been forwarded.
C11_Witness ==
  /\ received = <<"audio", "commit">>
  /\ Len(sessionSends) = 2
  /\ pcLoop = "gather"

\* --- generate_video
TerminalStatuses == {"success", "failed", "unknown"}

\* Polls the collaborator answered with an HTTP code and, on 200, a JSON body.
AnsweredPolls == PollOutcomes \ {"raise", "not json"}

\* C12: polling is bounded: never more than max_attempts polls, polling goes on
\* only below that number, and a request whose polls were all answered and
\* showed no terminal status has returned the 'timed out' error after exactly
\* max_attempts polls.
C12_PollingBounded ==
  /\ vidPolls <= max_attempts
  /\ vidPc = "polling" => vidPolls < max_attempts
  /\ (vidPc = "returned" /\ vidSubmit = "task"
        /\ vidSeen \subseteq (AnsweredPolls \ TerminalStatuses))
       => vidResponse = TimedOut /\ vidPolls = max_attempts

\* max_attempts polls answered 'running' or with a non-200 code: timed out.
C12_Witness ==
  /\ vidPc = "returned"
  /\ vidPolls = max_attempts
  /\ vidSeen = {"running", "http error"}
  /\ vidResponse = TimedOut

\* C13: success, failed and unknown end polling at the poll that observes them,
\* with the success body, the failure error and the unknown-status error; the
\* other statuses and a non-200 answer never end polling before the last
\* attempt; a success body is returned only after a poll observed 'success'.
C13_TerminalStatusesEndPolling ==
  /\ vidPc = "polling" => vidSeen \cap TerminalStatuses = {}
  /\ vidResponse.kind = "success" => vidLast = "success"
  /\ (vidPc = "returned" /\ vidLast = "success") => vidResponse = VideoSuccess
  /\ (vidPc = "returned" /\ vidLast = "failed")
       => vidResponse = VideoError(500, "Video generation failed: msg")
  /\ (vidPc = "returned" /\ vidLast = "unknown")
       => vidResponse = VideoError(500, "Unknown task status from SKYREELS API")
  /\ (vidPc = "returned" /\ vidLast \in AnsweredPolls \ TerminalStatuses)
       => vidPolls = max_attempts /\ vidResponse = TimedOut

\* 'unknown' was observed at the third poll, after 'pending' and a non-200.
C13_Witness ==
  /\ vidPc = "returned"
  /\ vidPolls = 3
  /\ vidSeen = {"pending", "http error", "unknown"}
  /\ vidLast = "unknown"

\* C20: no submit call without a configured key and a non-empty prompt, no
\* poll unless the submit call returned HTTP 200, code 200 and a task id, and a
\* rejected precondition has ended the request with an error and no poll.
C20_GuardedExternalCalls ==
  /\ (~vidKey \/ vidPrompt \in {"absent", ""}) => vidSubmits = 0 /\ vidPolls = 0
  /\ vidSubmits <= 1
  /\ vidPc = "polling" => vidSubmit = "task"
  /\ vidPolls > 0 => vidSubmit = "task" /\ vidSubmits = 1
  /\ (vidPc # "idle" /\ (~vidKey \/ vidPrompt \in {"absent", ""}))
       => vidPc = "returned" /\ vidResponse.kind = "error"
  /\ (vidSubmit \notin {"none", "task"})
       => vidPc = "returned" /\ vidResponse.kind = "error" /\ vidPolls = 0

\* The submit call answered 200 / 200 without a task id: error, no poll.
C20_Witness ==
  /\ vidPc = "returned"
  /\ vidSubmit = "no task id"
  /\ vidSubmits = 1 /\ vidPolls = 0
  /\ vidResponse = VideoError(500, "Failed to get task ID from SKYREELS API")

\* C17: a channel causes at most one backend connect attempt, and a session
\* that ended is never resumed: once the backend session is closed or broken
\* it is never open again, and once live_socket returned it stays returned
\* with its channel closed.
C17_ClosedNeverResumed ==
  /\ [](connects <= 1)
  /\ [][/\ session \in {"closed", "broken"} => session' # "open"
        /\ pcLoop # "connecting" => pcLoop' # "connecting"
        /\ pcLoop = "returned" => pcLoop' = "returned" /\ ws' = "closed"]_vars

\* A session that was open has been closed and the handler has returned.
C17_Witness ==
  /\ pcLoop = "returned"
  /\ connected = "ok"
  /\ session = "closed"
  /\ connects = 1

\* The frame ws.receive returned in this step, when it returned one.
FrameTaken(f) == received' = Append(received, f)

AudioSend == [input |-> "pcm", end_of_turn |-> FALSE]
CommitSend == [input |-> "none", end_of_turn |-> TRUE]

\* C21: in send_audio each client frame causes at most one send to the backend
\* session; a frame with an "audio" key is sent as audio with the turn left
\* open, also when it has a "commit" key; a frame with neither key causes no
\* send and the loop goes on; an empty frame, a frame that is not JSON or a
\* failed send ends send_audio for good: no frame is taken or sent after it.
C21_InboundAtMostOneSendPerFrame ==
  /\ [](/\ Len(sessionSends) <= Len(received)
        /\ (pcSend = "send") = (data # "none"))
  /\ [][/\ sessionSends' # sessionSends
             => /\ pcSend = "send" /\ pcSend' = "receive" /\ data' = "none"
                /\ sessionSends' = Append(sessionSends,
                                          IF HasAudio(data) THEN AudioSend
                                                            ELSE CommitSend)
        /\ \A f \in ClientFrames : FrameTaken(f)
             => /\ sessionSends' = sessionSends
                /\ HasAudio(f) \/ HasCommit(f) => pcSend' = "send" /\ data' = f
                /\ f = "other" => pcSend' = "receive" /\ data' = "none"
                /\ f \in {"empty", "badjson"} => pcSend' = "done" /\ data' = "none"
        /\ (pcSend = "send" /\ pcSend' # "send" /\ sessionSends' = sessionSends)
             => pcSend' = "done"
        /\ pcSend = "done"
             => /\ pcSend' = "done"
                /\ sessionSends' = sessionSends
                /\ received' = received]_vars

\* A frame with both keys was sent once, as audio, and a frame with neither
\* key was then taken without a send; send_audio is still receiving.
C21_Witness ==
  /\ received = <<"audio_commit", "other">>
  /\ sessionSends = <<AudioSend>>
  /\ pcSend = "receive"
  /\ pcLoop = "gather"

\* --- routing of a submitted prompt
\* C18: with Director mode on, a submitted prompt starts runDirectorMode and
\* nothing else: the calls made for it are the expert calls, one per expert,
\* and then the synthesis call, and no image, /process_text or single-model
\* call. (The chat holds only the user's message from sendText until a toggle
\* or an answer.)
C18_DirectorModeTakesEveryPrompt ==
  (dtEnabled /\ Len(chat) = 1 /\ chat[1].type = "user")
    => /\ pcText \in {"experts", "synthesis"}
       /\ Len(aiCalls) >= Len(experts)
       /\ \A k \in 1..Len(aiCalls) :
            /\ aiCalls[k].api = "chat"
            /\ aiCalls[k].model =
                 IF k <= Len(experts) THEN experts[k].model ELSE SynthesisModel

\* --- process_text as the backend client
\* C14: one invocation makes exactly one call to the model endpoint, to the
\* model of the request: no second call after a failure or an empty result.
C14_OneCallPerInvocation ==
  ptPc \in {"called", "returned"}
    => /\ Len(ptCalls) = 1
       /\ ptCalls[1].model = ModelOf(ptRequest)

\* The call gave no text, or failed, and the handler returned after that call.
C14_Witness ==
  /\ ptPc = "returned"
  /\ ptCalls[1].outcome \in {"empty", "backend error"}
  /\ Len(ptCalls) = 1

\* The failure form of a process_text body.
IsFailureBody(r) == r.value[1] = "Error processing request: "

\* C15: a response with zero candidates is returned as a failure, and a body
\* that is not a failure is returned only for a call that produced a text.
C15_ZeroCandidatesIsFailure ==
  ptPc = "returned"
    => /\ ptCalls[1].outcome = "no candidates" => IsFailureBody(ptResponse)
       /\ ~IsFailureBody(ptResponse) => ptCalls[1].outcome = "ok"

\* --- generate_tts
\* The characters of a base64 text back to bytes (the inverse of Base64Encode).
Value(c) == (CHOOSE i \in 1..64 : Alphabet[i] = c) - 1

DecodeGroup(q) ==
  LET v3 == IF q[3] = "=" THEN 0 ELSE Value(q[3])
      v4 == IF q[4] = "=" THEN 0 ELSE Value(q[4])
      n  == Value(q[1]) * 262144 + Value(q[2]) * 4096 + v3 * 64 + v4
      b  == << n \div 65536, (n \div 256) % 256, n % 256 >>
  IN  IF q[3] = "=" THEN SubSeq(b, 1, 1)
      ELSE IF q[4] = "=" THEN SubSeq(b, 1, 2) ELSE b

RECURSIVE Base64Decode(_)
Base64Decode(chars) ==
  IF chars = <<>> THEN <<>>
  ELSE DecodeGroup(SubSeq(chars, 1, 4)) \o Base64Decode(SubSeq(chars, 5, Len(chars)))

\* C16: a 200 answer of generate_tts carries the base64 of the complete audio:
\* decoding its audio field gives the bytes the synthesizer wrote (non-empty
\* when it wrote anything); a missing or empty text is answered 400 and starts
\* no synthesis.
C16_AudioIsSynthesizedBytes ==
  ttsPc = "returned"
    => /\ ttsResponse.status = 200
            => /\ Base64Decode(ttsResponse.audio) = ttsWritten
               /\ ttsWritten # <<>> => ttsResponse.audio # <<>>
       /\ ttsText \in {"absent", ""}
            => ttsResponse.status = 400 /\ ttsSynth = 0

====
